---- MODULE Spec2Model ----
(***************************************************************************)
(* Model of dbt-bq-dry-runner: BigQueryDryRunner (dry_run.py) and the      *)
(* command line entry points (hooks.py).                                   *)
(*                                                                         *)
(* The main thread walks through the program text (pc); the worker threads *)
(* of the ThreadPoolExecutor each run one call of run_from_model at a      *)
(* time.  The environment (command line, working directory, files on disk, *)
(* verdict of the remote service for a SQL text) is chosen in Init and     *)
(* never changes.                                                          *)
(***************************************************************************)
EXTENDS Naturals, Sequences, FiniteSets, TLC

\* ---------------------------------------------------------------- bounds
\* Largest number of compiled models in a target directory.
MaxFiles == 3
\* Number of worker threads of the executor (max_workers).
PoolSize == 2
\* Largest number of compiled models in a target directory in the runs of
\* hooks.py, which go through up to two batches.
MaxCliFiles == 2
\* Largest number of compiled models in a target directory in the runs
\* that vary the working directory and the project name.
MaxPathFiles == 1
\* Largest number of compiled models in the runs that call run_all_models
\* twice.
MaxRerunFiles == 2

\* ----------------------------------------------------------- environment
VARIABLES
    entry,      \* which program is run: a __main__ block or a direct call
    argv,       \* sys.argv
    cwd,        \* working directory, as path parts
    yml,        \* dbt_project.yml: whether it exists, and its name key
    dirs,       \* sub-target labels whose compiled models directory exists
    kinds       \* kinds[i]: the i-th compiled model of every existing directory

\* ------------------------------------------------------------ the runner
VARIABLES
    client,             \* self.client
    dbt_project_config, \* self.dbt_project_config
    root_path,          \* self.root_path
    dbt_target_dir      \* self.dbt_target_dir

\* ------------------------------------------------------- the main thread
VARIABLES
    pc,         \* position of the main thread
    target,     \* dbt_target_dir argument of the constructor being run
    ret,        \* where the main thread continues after the current call
    models,     \* dbt_compiled_models of the current run_all_models
    pending,    \* error raised inside the with block, held during shutdown
    stdout,     \* lines printed with print()
    stderr,     \* lines written to standard error
    exitCode,   \* exit status of the process, "running" before it ends
    uncaught    \* error that ended the process, "none" otherwise

\* -------------------------------------------------------------- the pool
VARIABLES
    units,      \* calls of run/run_from_model of the current batch or call
    queue,      \* executor work queue: indices of units, first in first out
    initial,    \* as_completed: futures found finished when it started
    arrived,    \* as_completed: futures finished since, in order
    yielded,    \* as_completed: futures already handed to the loop
    runs        \* history: one record per call of run_all_models, with its
                \* target, the models found, the positions of the units when
                \* line 159 raised, and at its end the units, the futures
                \* whose result was read and the error that left it

env == <<entry, argv, cwd, yml, dirs, kinds>>
runner == <<client, dbt_project_config, root_path, dbt_target_dir>>
mainv == <<pc, target, ret, models, pending, stdout, stderr, exitCode, uncaught>>
poolv == <<units, queue, initial, arrived, yielded, runs>>
vars == <<env, runner, mainv, poolv>>

\* None of Python.
None == "None"

\* The kinds of file: SQL the service accepts, SQL it rejects with a 400,
\* SQL whose request fails for another reason, a file that cannot be read.
Kinds == {"valid", "invalid", "outage", "unreadable"}

Entries == {"hooks", "dry_run", "run_from_model", "run", "run_from_model_name"}

\* Command lines of hooks.py.
Argvs == {<<"hooks.py">>, <<"hooks.py", "incremental">>,
          <<"hooks.py", "full_refresh">>, <<"hooks.py", "all">>}

UsageMessage == "Please provide a valid argument: incremental or full_refresh"

FullRefreshMessage == "Running full refresh models"

\* ------------------------------------------------------------------ paths
\* A pathlib.Path is the sequence of its parts; a str is the sequence of its
\* tokens, parts and "/" separators.

\* The parts with a "/" between each two.
JoinParts(parts) ==
    IF Len(parts) = 0 THEN <<>>
    ELSE [n \in 1..(2 * Len(parts) - 1) |->
             IF n % 2 = 1 THEN parts[(n + 1) \div 2] ELSE "/"]

\* str(path)
PathStr(parts) ==
    IF Len(parts) > 0 /\ Head(parts) = "/"
    THEN <<"/">> \o JoinParts(Tail(parts))
    ELSE JoinParts(parts)

IsPart(tok) == tok # "/"

\* The tokens between the separators.
SplitTokens(toks) == SelectSeq(toks, IsPart)

\* Path(s)
PathOf(toks) ==
    IF Len(toks) > 0 /\ Head(toks) = "/"
    THEN <<"/">> \o SplitTokens(Tail(toks))
    ELSE SplitTokens(toks)

\* parts.index(x): the first position of x, 0 when list.index raises ValueError
Index(parts, x) ==
    IF \E i \in 1..Len(parts) : parts[i] = x
    THEN CHOOSE i \in 1..Len(parts) :
             /\ parts[i] = x
             /\ \A j \in 1..(i - 1) : parts[j] # x
    ELSE 0

\* _trim_path_from: the parts from the first parent_dir on; raised when
\* parts.index raises ValueError
TrimPathFrom(path, parent_dir) ==
    LET idx == Index(path, parent_dir)
    IN  IF idx = 0 THEN [raised |-> TRUE, path |-> <<>>]
        ELSE [raised |-> FALSE, path |-> SubSeq(path, idx, Len(path))]

\* _get_dbt_target_dir, on the configuration of the constructor
GetDbtTargetDir(root, config, target_dir) ==
    IF target_dir \in {None, ""}
    THEN root \o <<"target", "compiled", config.name, "models">>
    ELSE root \o <<"target", target_dir, "compiled", config.name, "models">>

\* ------------------------------------------------------------------- disk
\* Relative path of the i-th compiled model below the models directory.
Rel(i) ==
    IF i % 2 = 0 THEN <<"staging", "m" \o ToString(i) \o ".sql">>
    ELSE <<"m" \o ToString(i) \o ".sql">>

\* Text of a file of the given kind.
SqlOf(kind) ==
    CASE kind = "valid" -> "SELECT 1"
      [] kind = "invalid" -> "SELECT missing_column"
      [] kind = "outage" -> "SELECT slow"

SqlTexts == {SqlOf(k) : k \in Kinds \ {"unreadable"}}

\* Files outside every models directory, one of each kind.
Strays == {[path |-> cwd \o <<"scratch", k \o ".sql">>, kind |-> k] : k \in Kinds}

\* The compiled models of the existing target directories.
Compiled ==
    IF ~yml.exists THEN {}
    ELSE {[path |-> GetDbtTargetDir(cwd, yml, t) \o Rel(i), kind |-> kinds[i]] :
              t \in dirs, i \in 1..Len(kinds)}

Disk == Strays \cup Compiled

\* The kind of the file at a path, "absent" when there is none.
KindAt(path) ==
    IF \E f \in Disk : f.path = path
    THEN (CHOOSE f \in Disk : f.path = path).kind
    ELSE "absent"

\* Path.rglob("*.sql") filtered by is_file: nothing for a missing directory.
RGlob(dir) ==
    IF yml.exists /\ \E t \in dirs : GetDbtTargetDir(cwd, yml, t) = dir
    THEN [i \in 1..Len(kinds) |-> dir \o Rel(i)]
    ELSE <<>>

\* ---------------------------------------------------------- remote service
\* client.query(sql, dry_run): the QueryJob, or the error raised.
ClientQuery(sql) ==
    CASE sql = "SELECT 1" -> "QueryJob"
      [] sql = "SELECT missing_column" -> "BadRequest"
      [] OTHER -> "ServiceUnavailable"

\* ------------------------------------------------------------------- Init
\* The state at the start of a program: an environment with one of the
\* given working directories and project names and at most cap compiled
\* models (cliCap for hooks.py), no runner, no unit of work.
Boot(entries, cwds, names, cap, cliCap) ==
    /\ entry \in entries
    /\ argv \in (IF entry = "hooks" THEN Argvs ELSE {<<entry \o ".py">>})
    /\ cwd \in cwds
    /\ yml \in {[exists |-> FALSE, name |-> None]}
                 \cup {[exists |-> TRUE, name |-> n] : n \in names}
    /\ dirs \in (IF ~yml.exists THEN {{}}
                 ELSE IF entry = "hooks" THEN SUBSET {"incremental", "full_refresh"}
                 ELSE SUBSET {None})
    /\ kinds \in (IF dirs = {} THEN {<<>>}
                  ELSE UNION {[1..n -> Kinds] :
                      n \in 0..(IF entry = "hooks" THEN cliCap ELSE cap)})
    /\ client = None
    /\ dbt_project_config = [name |-> None]
    /\ root_path = <<>>
    /\ dbt_target_dir = <<>>
    /\ pc = "start"
    /\ target = None
    /\ ret = "exit"
    /\ models = <<>>
    /\ pending = "none"
    /\ stdout = <<>>
    /\ stderr = <<>>
    /\ exitCode = "running"
    /\ uncaught = "none"
    /\ units = <<>>
    /\ queue = <<>>
    /\ initial = {}
    /\ arrived = <<>>
    /\ yielded = {}
    /\ runs = <<>>

Init == Boot(Entries, {<<"/", "repo">>}, {"shop"}, MaxFiles, MaxCliFiles)

\* Working directories and project names, with and without a part named
\* models.
Cwds == {<<"/", "repo">>, <<"/", "models", "repo">>}

ProjectNames == {"shop", "models"}

\* A caller that builds a runner and calls run_all_models twice, catching
\* what it raises.
InitRerun == Boot({"rerun"}, {<<"/", "repo">>}, {"shop"}, MaxRerunFiles, MaxRerunFiles)

InitPaths == Boot(Entries, Cwds, ProjectNames, MaxPathFiles, MaxPathFiles)


\* ------------------------------------------------------------ unit of work
\* One call of run (fn = "run") or run_from_model: its argument, its position
\* ("queued", "open", "await", "done"), the text read, the requests sent to
\* the service, its log line and how it ended.
NewUnit(fn, arg, at, sql) ==
    [fn |-> fn, arg |-> arg, pc |-> at, sql |-> sql, requests |-> 0,
     level |-> "none", ident |-> <<>>, outcome |-> "none"]

\* model_path after the isinstance test of run_from_model
ModelPath(arg) == IF arg.str THEN PathOf(arg.v) ELSE arg.v

\* Variant: except Exception
CaughtAny(exc) == TRUE

\* except BadRequest
Caught(exc) == exc = "BadRequest"

\* open and read of run_from_model, then client.query sends the request
\* (each conversion of the path is taken once, as the code does)
OpenUnit(u) ==
    LET kind == CHOOSE k \in {KindAt(f) : f \in {PathOf(s) : s \in
                        {PathStr(p) : p \in {ModelPath(u.arg)}}}} : TRUE
    IN  CASE kind = "absent" ->
               [u EXCEPT !.pc = "done", !.outcome = "FileNotFoundError"]
          [] kind = "unreadable" ->
               [u EXCEPT !.pc = "done", !.outcome = "OSError"]
          [] OTHER ->
               [u EXCEPT !.pc = "await", !.sql = SqlOf(kind),
                         !.requests = @ + 1]

\* run: client.query sends the request for the given text
SendUnit(u) == [u EXCEPT !.pc = "await", !.requests = @ + 1]

\* The log line of run_from_model and the end of the call: the label is
\* computed inside the f-string, so a ValueError replaces the result.
Labelled(u, level, outcome) ==
    LET t == TrimPathFrom(ModelPath(u.arg), "models")
    IN  IF u.fn = "run"
        THEN [u EXCEPT !.pc = "done", !.level = level, !.outcome = outcome]
        ELSE IF t.raised
        THEN [u EXCEPT !.pc = "done", !.outcome = "ValueError"]
        ELSE [u EXCEPT !.pc = "done", !.level = level, !.ident = t.path,
                       !.outcome = outcome]

\* The answer of the service arrives: try/except of run and run_from_model
RespondUnit(u) ==
    LET r == ClientQuery(u.sql)
    IN  IF r = "QueryJob" THEN Labelled(u, "INFO", r)
        ELSE IF Caught(r) THEN Labelled(u, "ERROR", r)
        ELSE [u EXCEPT !.pc = "done", !.outcome = r]

\* The units some thread is running: each on a worker thread of its own, or
\* on the main thread for a direct call.  The worker threads are alike and
\* hold no state of their own, so only their number is kept.
Running == {i \in 1..Len(units) : units[i].pc \in {"open", "send", "await"}}

\* Variant: a new thread is started for every work item.
IdleWorkerAlways == TRUE

\* _adjust_thread_count and the work queue: a thread is free for the next
\* work item while fewer than max_workers units are running.
IdleWorker == Cardinality(Running) < PoolSize

\* _WorkItem.run: the result or the error is stored in the future and the
\* waiter of as_completed is told.
Settle(i, u) ==
    /\ units' = [units EXCEPT ![i] = u]
    /\ arrived' = IF u.pc = "done" /\ pc = "drain" THEN Append(arrived, i)
                  ELSE arrived

\* A worker thread takes the first work item of the queue.
Take ==
    /\ IdleWorker
    /\ queue # <<>>
    /\ queue' = Tail(queue)
    /\ units' = [units EXCEPT ![Head(queue)].pc = "open"]
    /\ UNCHANGED <<env, runner, mainv, initial, arrived, yielded, runs>>

UnitOpen(i) ==
    /\ i \in 1..Len(units)
    /\ units[i].pc = "open"
    /\ Settle(i, OpenUnit(units[i]))
    /\ UNCHANGED <<env, runner, mainv, queue, initial, yielded, runs>>

UnitSend(i) ==
    /\ i \in 1..Len(units)
    /\ units[i].pc = "send"
    /\ Settle(i, SendUnit(units[i]))
    /\ UNCHANGED <<env, runner, mainv, queue, initial, yielded, runs>>

UnitRespond(i) ==
    /\ i \in 1..Len(units)
    /\ units[i].pc = "await"
    /\ Settle(i, RespondUnit(units[i]))
    /\ UNCHANGED <<env, runner, mainv, queue, initial, yielded, runs>>


\* ------------------------------------------------------------- main thread
\* An error nobody catches ends the process: the interpreter writes the
\* traceback to standard error and exits with status 1.
Uncaught(exc) ==
    /\ pc' = "exited"
    /\ uncaught' = exc
    /\ exitCode' = "1"
    /\ stderr' = Append(stderr, "Traceback")

\* The __main__ blocks: hooks.py line 26, dry_run.py line 168; a direct call
\* is made on a runner built with the default arguments.
Start ==
    /\ pc = "start"
    /\ pc' = "construct"
    /\ target' = (IF entry = "hooks" THEN "incremental" ELSE None)
    /\ ret' = (IF entry = "hooks" THEN "argv" ELSE "exit")
    /\ UNCHANGED <<env, runner, models, pending, stdout, stderr, exitCode,
                   uncaught, poolv>>

\* BigQueryDryRunner.__init__ with _get_dbt_project_config
Construct ==
    /\ pc = "construct"
    /\ IF ~yml.exists
       THEN /\ Uncaught("FileNotFoundError")
            /\ UNCHANGED <<runner, stdout>>
       ELSE /\ client' = "Client"
            /\ dbt_project_config' = [name |-> yml.name]
            /\ root_path' = cwd
            /\ dbt_target_dir' = GetDbtTargetDir(cwd, [name |-> yml.name], target)
            /\ pc' = (IF entry \in {"hooks", "dry_run", "rerun"} THEN "discover"
                      ELSE "call")
            /\ UNCHANGED <<stdout, stderr, exitCode, uncaught>>
    /\ UNCHANGED <<env, target, ret, models, pending, poolv>>

\* _get_compiled_models
GetCompiledModels == RGlob(dbt_target_dir)

\* Variant: the discovery stores the directory it walked in the runner.
DiscoverRetarget ==
    /\ pc = "discover"
    /\ models' = GetCompiledModels
    /\ units' = <<>>
    /\ queue' = <<>>
    /\ initial' = {}
    /\ arrived' = <<>>
    /\ yielded' = {}
    /\ pending' = "none"
    /\ runs' = Append(runs, [target |-> target, models |-> models',
                             status |-> "running", error |-> "none",
                             units |-> <<>>, atRaise |-> <<>>, read |-> {}])
    /\ pc' = "submit"
    /\ dbt_target_dir' = root_path
    /\ UNCHANGED <<env, client, dbt_project_config, root_path, target, ret,
                   stdout, stderr, exitCode, uncaught>>

\* run_all_models, line 150 and the new executor of line 152
Discover ==
    /\ pc = "discover"
    /\ models' = GetCompiledModels
    /\ units' = <<>>
    /\ queue' = <<>>
    /\ initial' = {}
    /\ arrived' = <<>>
    /\ yielded' = {}
    /\ pending' = "none"
    /\ runs' = Append(runs, [target |-> target, models |-> models',
                             status |-> "running", error |-> "none",
                             units |-> <<>>, atRaise |-> <<>>, read |-> {}])
    /\ pc' = "submit"
    /\ UNCHANGED <<env, runner, target, ret, stdout, stderr, exitCode,
                   uncaught>>

\* Variant: the comprehension stops one model short.
AllSubmittedButLast(ms, us) == Len(us) + 1 >= Len(ms)

\* The list comprehension of lines 153-156 has gone through every model.
AllSubmitted(ms, us) == Len(us) = Len(ms)

\* executor.submit(self.run_from_model, str(node))
Submit ==
    /\ pc = "submit"
    /\ ~AllSubmitted(models, units)
    /\ LET i == Len(units) + 1
       IN  /\ units' = Append(units,
                  NewUnit("run_from_model",
                          [str |-> TRUE, v |-> PathStr(models[i])], "queued", ""))
           /\ queue' = Append(queue, i)
    /\ UNCHANGED <<env, runner, mainv, initial, arrived, yielded, runs>>

\* as_completed(futures): the futures already finished are set apart and a
\* waiter is installed on the others.
AsCompleted ==
    /\ pc = "submit"
    /\ AllSubmitted(models, units)
    /\ pc' = "drain"
    /\ initial' = {i \in 1..Len(units) : units[i].pc = "done"}
    /\ arrived' = <<>>
    /\ UNCHANGED <<env, runner, target, ret, models, pending, stdout, stderr,
                   exitCode, uncaught, units, queue, yielded, runs>>

\* Variant: the waiter is never told of a future that finishes later.
NextCompletedInitialOnly == initial \ yielded

\* The futures as_completed can yield next: those finished at its start in
\* any order, then the others in the order they finish.
NextCompleted ==
    IF initial \ yielded # {} THEN initial \ yielded
    ELSE IF arrived # <<>> THEN {Head(arrived)}
    ELSE {}

\* Variant: only a rejection by the service is raised again.
RaisesOnlyBadRequest(outcome) == outcome = "BadRequest"

\* future.result() raises the error stored in the future
Raises(outcome) == outcome # "QueryJob"

\* Variant: shutdown(cancel_futures=True) empties the queue.
ShutdownQueueCancel(q) == <<>>

\* Executor.__exit__ calls shutdown(wait=True): the work items still queued
\* stay in the queue and are run.
ShutdownQueue(q) == q

\* One turn of the loop of lines 158-159.
Drain(i) ==
    /\ pc = "drain"
    /\ i \in NextCompleted
    /\ yielded' = yielded \cup {i}
    /\ IF Raises(units[i].outcome)
       THEN /\ pending' = units[i].outcome
            /\ pc' = "shutdown"
            /\ queue' = ShutdownQueue(queue)
            /\ arrived' = <<>>
            /\ initial' = {}
            /\ runs' = [runs EXCEPT ![Len(runs)].atRaise =
                          [j \in 1..Len(units) |-> units[j].pc]]
       ELSE /\ arrived' = (IF i \in initial THEN arrived ELSE Tail(arrived))
            /\ UNCHANGED <<pending, pc, queue, initial, runs>>
    /\ UNCHANGED <<env, runner, target, ret, models, stdout, stderr, exitCode,
                   uncaught, units>>

\* The loop of lines 158-159 ends: every future has been yielded.
DrainEnd ==
    /\ pc = "drain"
    /\ yielded = 1..Len(units)
    /\ pc' = "shutdown"
    /\ queue' = ShutdownQueue(queue)
    /\ initial' = {}
    /\ UNCHANGED <<env, runner, target, ret, models, pending, stdout, stderr,
                   exitCode, uncaught, units, arrived, yielded, runs>>

\* Variant: shutdown(wait=False) does not join.
JoinedNoWait == TRUE

\* shutdown(wait=True) joins the worker threads, which end when the queue
\* is empty.
Joined == queue = <<>> /\ Running = {}

\* The with block of line 152 is left: run_all_models returns, or the error
\* of line 159 leaves it, its caller and the process.
Shutdown ==
    /\ pc = "shutdown"
    /\ Joined
    /\ runs' = [runs EXCEPT ![Len(runs)] =
                  [@ EXCEPT !.status = (IF pending = "none" THEN "returned" ELSE "raised"),
                            !.error = pending,
                            !.units = units,
                            !.read = yielded]]
    /\ IF pending = "none"
       THEN /\ pc' = ret
            /\ UNCHANGED <<stderr, exitCode, uncaught>>
       ELSE Uncaught(pending)
    /\ UNCHANGED <<env, runner, target, ret, models, pending, stdout, units,
                   queue, initial, arrived, yielded>>

\* The with block of line 152 is left and run_all_models returns or raises
\* to a caller that catches the error and calls it a second time.
Rerun ==
    /\ pc = "shutdown"
    /\ Joined
    /\ runs' = [runs EXCEPT ![Len(runs)] =
                  [@ EXCEPT !.status = (IF pending = "none" THEN "returned" ELSE "raised"),
                            !.error = pending,
                            !.units = units,
                            !.read = yielded]]
    /\ pc' = (IF Len(runs) < 2 THEN "discover" ELSE "exit")
    /\ UNCHANGED <<env, runner, target, ret, models, pending, stdout, stderr,
                   exitCode, uncaught, units, queue, initial, arrived, yielded>>

\* hooks.py lines 27-33
Argv ==
    /\ pc = "argv"
    /\ IF Len(argv) < 2
       THEN /\ Uncaught("IndexError")
            /\ UNCHANGED <<target, ret, stdout>>
       ELSE IF argv[2] = "incremental"
       THEN /\ pc' = "construct"
            /\ target' = "incremental"
            /\ ret' = "exit"
            /\ UNCHANGED <<stdout, stderr, exitCode, uncaught>>
       ELSE IF argv[2] = "full_refresh"
       THEN /\ stdout' = Append(stdout, FullRefreshMessage)
            /\ pc' = "construct"
            /\ target' = "full_refresh"
            /\ ret' = "exit"
            /\ UNCHANGED <<stderr, exitCode, uncaught>>
       ELSE /\ stdout' = Append(stdout, UsageMessage)
            /\ pc' = "exited"
            /\ exitCode' = "1"
            /\ uncaught' = "SystemExit"
            /\ UNCHANGED <<target, ret, stderr>>
    /\ UNCHANGED <<env, runner, models, pending, poolv>>

\* The end of a __main__ block.
Exit ==
    /\ pc = "exit"
    /\ pc' = "exited"
    /\ exitCode' = "0"
    /\ UNCHANGED <<env, runner, target, ret, models, pending, stdout, stderr,
                   uncaught, poolv>>

\* Paths a caller hands to run_from_model: the files on disk and one that
\* does not exist.
DirectPaths == {f.path : f \in Disk} \cup {cwd \o <<"scratch", "gone.sql">>}

\* A direct call of run_from_model (a str or a Path) or of run.
Call ==
    /\ pc = "call"
    /\ entry \in {"run", "run_from_model"}
    /\ pc' = "direct"
    /\ IF entry = "run"
       THEN \E sql \in SqlTexts :
                units' = <<NewUnit("run", [str |-> TRUE, v |-> <<>>], "send", sql)>>
       ELSE \E p \in DirectPaths, s \in BOOLEAN :
                units' = <<NewUnit("run_from_model",
                                   [str |-> s, v |-> IF s THEN PathStr(p) ELSE p],
                                   "open", "")>>
    /\ UNCHANGED <<env, runner, target, ret, models, pending, stdout, stderr,
                   exitCode, uncaught, queue, initial, arrived, yielded, runs>>

\* The direct call returns its QueryJob or raises.
DirectReturn ==
    /\ pc = "direct"
    /\ units[1].pc = "done"
    /\ IF Raises(units[1].outcome)
       THEN Uncaught(units[1].outcome)
       ELSE /\ pc' = "exit"
            /\ UNCHANGED <<stderr, exitCode, uncaught>>
    /\ UNCHANGED <<env, runner, target, ret, models, pending, stdout, poolv>>

\* Names a caller hands to run_from_model_name.
ModelNames == {"", "orders", "staging.orders"}

\* Variant: the by-name call reports a rejection by the service.
RunFromModelNameBadRequest(model_name) == "BadRequest"

\* run_from_model_name: the error it raises
RunFromModelName(model_name) == "NotImplementedError"

\* A direct call of run_from_model_name.
CallByName ==
    /\ pc = "call"
    /\ entry = "run_from_model_name"
    /\ \E model_name \in ModelNames : Uncaught(RunFromModelName(model_name))
    /\ UNCHANGED <<env, runner, target, ret, models, pending, stdout, poolv>>

Next ==
    \/ Start
    \/ Construct
    \/ Discover
    \/ Submit
    \/ AsCompleted
    \/ \E i \in 1..Len(units) : Drain(i)
    \/ DrainEnd
    \/ Shutdown
    \/ Argv
    \/ Exit
    \/ Call
    \/ CallByName
    \/ DirectReturn
    \/ Take
    \/ \E i \in 1..Len(units) : UnitOpen(i)
    \/ \E i \in 1..Len(units) : UnitSend(i)
    \/ \E i \in 1..Len(units) : UnitRespond(i)

Spec == Init /\ [][Next]_vars

\* Two calls of run_all_models on one runner.
NextRerun ==
    \/ Start
    \/ Construct
    \/ Discover
    \/ Submit
    \/ AsCompleted
    \/ \E i \in 1..Len(units) : Drain(i)
    \/ DrainEnd
    \/ Rerun
    \/ Exit
    \/ Take
    \/ \E i \in 1..Len(units) : UnitOpen(i)
    \/ \E i \in 1..Len(units) : UnitRespond(i)

SpecRerun == InitRerun /\ [][NextRerun]_vars

\* dry_run.py: one call of run_all_models.
InitBatch == Boot({"dry_run"}, {<<"/", "repo">>}, {"shop"}, MaxFiles, MaxFiles)

\* The steps of the main thread in dry_run.py.
MainStep ==
    \/ Start
    \/ Construct
    \/ Discover
    \/ Submit
    \/ AsCompleted
    \/ \E i \in 1..Len(units) : Drain(i)
    \/ DrainEnd
    \/ Shutdown
    \/ Exit

\* The steps of the worker threads.
WorkerStep ==
    \/ Take
    \/ \E i \in 1..Len(units) : UnitOpen(i)
    \/ \E i \in 1..Len(units) : UnitRespond(i)

NextBatch == MainStep \/ WorkerStep

\* The main thread and the workers are scheduled fairly, and every file
\* read and every request to the service comes back.
FairSpec ==
    /\ InitBatch
    /\ [][NextBatch]_vars
    /\ WF_vars(MainStep)
    /\ WF_vars(WorkerStep)

\* The same program in working directories and projects of any name.
SpecPaths == InitPaths /\ [][Next]_vars


\* ------------------------------------------------------------- properties
\* The calls of run_all_models that have returned or raised.
FinishedRuns == {k \in 1..Len(runs) : runs[k].status # "running"}

\* How a unit ends for a file of the given kind.
OwnOutcome(kind) ==
    CASE kind = "valid" -> "QueryJob"
      [] kind = "invalid" -> "BadRequest"
      [] kind = "outage" -> "ServiceUnavailable"
      [] kind = "unreadable" -> "OSError"

Failures == {"ServiceUnavailable", "OSError", "FileNotFoundError"}

\* The file of this kind can be read and the service accepts its text.
Accepted(kind) ==
    kind # "unreadable" /\ ClientQuery(SqlOf(kind)) = "QueryJob"

\* C1: failure isolation.  When run_all_models has ended and one of its
\* units was rejected by the service, every unit of the batch has run to its
\* end with the outcome of its own file, the units still queued or running
\* when the rejection was raised at line 159 included; none is left queued.
C1_FailureIsolation ==
    \A k \in FinishedRuns :
        LET r == runs[k]
        IN  (\E i \in 1..Len(r.units) : r.units[i].outcome = "BadRequest")
            => /\ Len(r.units) = Len(r.models)
               /\ \A i \in 1..Len(r.units) :
                      /\ r.units[i].pc = "done"
                      /\ r.units[i].outcome = OwnOutcome(kinds[i])
                      /\ kinds[i] # "unreadable" => r.units[i].sql = SqlOf(kinds[i])

\* C1 witness: a batch ended by a rejection in which a unit accepted by the
\* service was still queued when the rejection was raised.
C1_Witness ==
    \E k \in FinishedRuns :
        /\ runs[k].error = "BadRequest"
        /\ \E i \in 1..Len(runs[k].units) :
               /\ runs[k].atRaise[i] = "queued"
               /\ runs[k].units[i].outcome = "QueryJob"

\* C2: no silent drops or duplicates.  The i-th unit submitted is the call
\* for the i-th file found, no unit ever sends more than one request, and
\* when run_all_models ends there is one finished unit, with one outcome,
\* for each file found.
C2_NoDropsNoDuplicates ==
    /\ \A i \in 1..Len(units) : units[i].requests <= 1
    /\ pc \in {"submit", "drain", "shutdown"} =>
           /\ Len(units) <= Len(models)
           /\ \A i \in 1..Len(units) : ModelPath(units[i].arg) = models[i]
    /\ \A k \in FinishedRuns :
           LET r == runs[k]
           IN  /\ Len(r.units) = Len(r.models)
               /\ \A i \in 1..Len(r.units) :
                      /\ ModelPath(r.units[i].arg) = r.models[i]
                      /\ r.units[i].requests <= 1
                      /\ r.units[i].pc = "done"
                      /\ r.units[i].outcome \in {"QueryJob", "BadRequest"} \cup Failures

\* C2 witness: a batch of three files has ended with an accepted, a rejected
\* and a failed unit.
C2_Witness ==
    \E k \in FinishedRuns :
        /\ Len(runs[k].models) >= 3
        /\ {runs[k].units[i].outcome : i \in 1..Len(runs[k].units)}
               = {"QueryJob", "BadRequest", "OSError"}

\* C3: join barrier.  Outside the with block of run_all_models, that is once
\* it has returned or its error has left it, no unit is queued or running.
C3_JoinBarrier ==
    pc \in {"discover", "construct", "argv", "exit", "exited"} =>
        /\ queue = <<>>
        /\ \A i \in 1..Len(units) : units[i].pc = "done"

\* C3 witness: the error of a unit has ended the process, and another unit
\* that was not finished when the error was raised is finished now.
C3_Witness ==
    /\ pc = "exited"
    /\ runs # <<>>
    /\ uncaught = runs[Len(runs)].error
    /\ uncaught # "none"
    /\ \E i \in 1..Len(units) :
           /\ runs[Len(runs)].atRaise[i] \in {"queued", "open", "await"}
           /\ units[i].pc = "done"

\* C4: terminal state.  A call of run_all_models that has ended returned
\* normally exactly when the service accepted every file found, and raised
\* otherwise; with no file found it returned and sent no request.
C4_TerminalState ==
    \A k \in FinishedRuns :
        LET r == runs[k]
        IN  /\ r.status = "returned" <=>
                   \A i \in 1..Len(r.models) : Accepted(kinds[i])
            /\ r.status = "raised" <=>
                   \E i \in 1..Len(r.models) :
                       r.units[i].outcome \in {"BadRequest"} \cup Failures
            /\ r.models = <<>> => r.status = "returned" /\ r.units = <<>>

\* C4 witness: a batch of several files, all accepted, has returned.
C4_Witness ==
    \E k \in FinishedRuns :
        /\ runs[k].status = "returned"
        /\ Len(runs[k].units) >= 2
        /\ \A i \in 1..Len(runs[k].units) : runs[k].units[i].outcome = "QueryJob"

\* C5: aggregated batch error.  When run_all_models has raised, the error
\* of every failed unit of the batch has been read by the orchestrator.
C5_AggregatedBatchError ==
    \A k \in FinishedRuns :
        runs[k].status = "raised" =>
            \A i \in 1..Len(runs[k].units) :
                Raises(runs[k].units[i].outcome) => i \in runs[k].read


\* C6: missing target directory.  A call of run_all_models whose target
\* directory does not exist never returns normally.
C6_MissingDirFailsFast ==
    \A k \in 1..Len(runs) :
        runs[k].target \notin dirs => runs[k].status # "returned"

\* C7: identity trimming.  run_from_model sends no request to the service
\* for a path without a models part.
C7_TrimViolationBeforeRequest ==
    \A i \in 1..Len(units) :
        (/\ units[i].fn = "run_from_model"
         /\ Index(ModelPath(units[i].arg), "models") = 0)
        => units[i].requests = 0

\* The request of this unit was answered with an error that is no rejection
\* of the text.
InfraFailed(u) ==
    /\ u.pc = "done"
    /\ u.requests = 1
    /\ ClientQuery(u.sql) \notin {"QueryJob", "BadRequest"}

\* C8: infrastructure failures are not turned into rejections.  A unit
\* whose request failed with another error than BadRequest has logged
\* nothing, neither as valid nor as invalid, and ended with that very error,
\* with or without a models part in its path; the direct call and the batch
\* that held it have failed, the direct call with that error.
C8_InfraNotInvalid ==
    /\ \A i \in 1..Len(units) :
           InfraFailed(units[i]) =>
               /\ units[i].level = "none"
               /\ units[i].outcome = ClientQuery(units[i].sql)
    /\ (pc = "exited" /\ entry \in {"run", "run_from_model"}
            /\ units # <<>> /\ InfraFailed(units[1]))
           => uncaught = ClientQuery(units[1].sql) /\ exitCode = "1"
    /\ \A k \in FinishedRuns :
           (\E i \in 1..Len(runs[k].units) : InfraFailed(runs[k].units[i]))
               => runs[k].status = "raised"

\* C8 witness: a batch has ended in which a unit met an outage, next to a
\* unit the service rejected.
C8_Witness ==
    \E k \in FinishedRuns :
        /\ \E i \in 1..Len(runs[k].units) : InfraFailed(runs[k].units[i])
        /\ \E i \in 1..Len(runs[k].units) : runs[k].units[i].level = "ERROR"

\* C9: the command line runs the selected variant.  With the argument
\* incremental or full_refresh at most one batch is started, and it is the
\* batch over the target of that name.
C9_CliRunsSelectedOnly ==
    (entry = "hooks" /\ Len(argv) >= 2
         /\ argv[2] \in {"incremental", "full_refresh"})
        => /\ Len(runs) <= 1
           /\ \A k \in 1..Len(runs) : runs[k].target = argv[2]

\* C10: usage error.  When hooks.py has ended after being started with no
\* argument, or with another argument than incremental and full_refresh, the
\* usage message is on standard error and the exit status is not 0.
C10_CliUsageError ==
    (/\ entry = "hooks"
     /\ pc = "exited"
     /\ (Len(argv) < 2 \/ argv[2] \notin {"incremental", "full_refresh"}))
    => /\ exitCode # "0"
       /\ \E n \in 1..Len(stderr) : stderr[n] = UsageMessage


\* C11: the by-name entry point.  In a program that calls
\* run_from_model_name no unit of work is ever created, no batch is started
\* and the call never returns; once the call has been made the process has
\* ended with NotImplementedError, which is not the error of a rejection.
C11_ByNameNotImplemented ==
    entry = "run_from_model_name" =>
        /\ units = <<>>
        /\ queue = <<>>
        /\ runs = <<>>
        /\ pc \notin {"direct", "exit"}
        /\ exitCode # "0"
        /\ (pc = "exited" /\ client # None) =>
               /\ uncaught = "NotImplementedError"
               /\ uncaught # "BadRequest"

\* C11 witness: run_from_model_name has been called on a constructed runner
\* and has raised.
C11_Witness ==
    /\ entry = "run_from_model_name"
    /\ client # None
    /\ pc = "exited"
    /\ uncaught = "NotImplementedError"


\* C12: identity.  In a batch, the label in the log line of a file is models
\* followed by the path of the file relative to the target directory.
C12_IdentityFromTargetDir ==
    entry \in {"hooks", "dry_run"} =>
        \A i \in 1..Len(units) :
            units[i].level # "none" =>
                units[i].ident =
                    <<"models">> \o SubSeq(ModelPath(units[i].arg),
                                           Len(dbt_target_dir) + 1,
                                           Len(ModelPath(units[i].arg)))


\* The files of a batch that has ended, each with how its unit ended and
\* what it logged.
OutcomeSet(r) ==
    {<<ModelPath(r.units[i].arg), r.units[i].outcome, r.units[i].level>> :
         i \in 1..Len(r.units)}

\* C13: idempotence.  Two calls of run_all_models over the same target
\* directory that have ended have the same set of outcomes per file and have
\* both returned or both raised.
C13_Idempotent ==
    \A j \in FinishedRuns, k \in FinishedRuns :
        runs[j].target = runs[k].target =>
            /\ OutcomeSet(runs[j]) = OutcomeSet(runs[k])
            /\ Len(runs[j].units) = Len(runs[k].units)
            /\ runs[j].status = runs[k].status

\* C13 witness: two batches of two failing files have ended, the futures
\* read in the first and in the second are not the same.
C13_Witness ==
    /\ Len(runs) = 2
    /\ FinishedRuns = {1, 2}
    /\ Len(runs[1].units) >= 2
    /\ runs[1].status = "raised"
    /\ runs[1].read # runs[2].read
    /\ runs[1].error # runs[2].error


\* In every state of a batch at most PoolSize units are running, and the
\* queue holds exactly the units not yet started, in the order submitted.
PoolInv ==
    entry \in {"hooks", "dry_run"} =>
        /\ Cardinality(Running) <= PoolSize
        /\ \A i \in 1..Len(units) :
               units[i].pc = "queued" <=> \E n \in 1..Len(queue) : queue[n] = i
        /\ \A n \in 1..Len(queue), m \in 1..Len(queue) :
               n < m => queue[n] < queue[m]

\* A step starts a unit only if it is the first of the queue and fewer than
\* PoolSize units are running, changes at most one unit, and changes
\* nothing of the runner unless it is the constructor.
PoolStep ==
    /\ \A i \in 1..Len(units) :
           (i <= Len(units') /\ units[i].pc = "queued" /\ units'[i].pc # "queued")
               => /\ Cardinality(Running) < PoolSize
                  /\ i = Head(queue)
                  /\ units'[i].pc = "open"
    /\ \A i \in 1..Len(units), j \in 1..Len(units) :
           (/\ i <= Len(units') /\ j <= Len(units') /\ i # j
            /\ units'[i] # units[i])
               => units'[j] = units[j]
    /\ units' # units => UNCHANGED runner

\* C14: bounded worker pool.  PoolInv holds in every state and PoolStep of
\* every step.
C14_BoundedPool == [](PoolInv) /\ [][PoolStep]_vars

\* C14 witness: every worker is busy and a unit waits in the queue.
C14_Witness ==
    /\ entry \in {"hooks", "dry_run"}
    /\ Cardinality(Running) = PoolSize
    /\ queue # <<>>


\* C15: frozen configuration.  Only the constructor changes
\* dbt_project_config, root_path and dbt_target_dir; it sets them from the
\* project file, the working directory and its argument, and every other
\* step, of the main thread or of a worker, leaves them as they are.
C15_FrozenConfig ==
    [][/\ pc # "construct" =>
              UNCHANGED <<dbt_project_config, root_path, dbt_target_dir>>
       /\ (pc = "construct" /\ pc' # "exited") =>
              /\ dbt_project_config' = [name |-> yml.name]
              /\ root_path' = cwd
              /\ dbt_target_dir' =
                     GetDbtTargetDir(root_path', dbt_project_config', target)]_vars

\* C15 witness: a batch with a failed unit has ended the process and the
\* runner still holds what its constructor set.
C15_Witness ==
    /\ pc = "exited"
    /\ runs # <<>>
    /\ uncaught \in {"BadRequest", "OSError", "ServiceUnavailable"}
    /\ Len(units) >= 2
    /\ root_path = cwd
    /\ dbt_target_dir = GetDbtTargetDir(cwd, [name |-> yml.name], target)


\* C16: termination.  Under fair scheduling the process ends, run_all_models
\* having returned or raised, and no unit is left queued or running.
C16_Terminates ==
    <>(/\ pc = "exited"
       /\ queue = <<>>
       /\ \A i \in 1..Len(units) : units[i].pc = "done")

\* C16 witness: the process has ended after a batch of more files than
\* there are workers, in which every unit failed.
C16_Witness ==
    /\ pc = "exited"
    /\ Len(units) > PoolSize
    /\ \A i \in 1..Len(units) :
           units[i].pc = "done" /\ units[i].outcome # "QueryJob"

\* The futures of a call of run_all_models whose result the loop of lines
\* 158-159 read and found to be an error.
FailedRead(r) == {i \in r.read : r.units[i].outcome # "QueryJob"}

\* C17: the error propagated is one unit's own.  When run_all_models has
\* raised, exactly one of the futures whose result was read holds an error,
\* the error raised is that unit's error unchanged, every other future read
\* held a result, and the futures not read play no part; when it has
\* returned, every future was read and held a result.
C17_OwnErrorOfFirstFailure ==
    \A k \in FinishedRuns :
        LET r == runs[k]
        IN  /\ r.read \subseteq 1..Len(r.units)
            /\ IF r.status = "raised"
               THEN /\ \E i \in r.read : FailedRead(r) = {i}
                    /\ \A i \in FailedRead(r) : r.error = r.units[i].outcome
               ELSE /\ FailedRead(r) = {}
                    /\ r.read = 1..Len(r.units)
                    /\ r.error = "none"

\* C17 witness: two calls on the same files, with two failed units, raised
\* different errors, and in the first a failed unit was never read.
C17_Witness ==
    /\ Len(runs) = 2
    /\ runs[1].status = "raised"
    /\ runs[2].status = "raised"
    /\ runs[1].error # runs[2].error
    /\ \E i \in 1..Len(runs[1].units) :
           /\ i \notin runs[1].read
           /\ runs[1].units[i].outcome # "QueryJob"

====
